---- MODULE Spec2Model ----
(***************************************************************************)
(* A model of nerdynz/datastore: the tenant predicate rewriter             *)
(* (AppendSiteULID), the search normalizer (FormatSearch), the logging     *)
(* bridge (slogAdapter / slogPgxAdapter / log) and the connection          *)
(* bootstrap (getDBConnection).                                            *)
(*                                                                         *)
(* Go strings are modelled as sequences of atoms.  An atom is a TLA+       *)
(* string standing for a fixed piece of text: a single character (" ",     *)
(* "$", ".", "@", "%", a digit, a letter) or a literal the code treats as  *)
(* a unit ("SITEULID", "site_ulid = ", "and").  Within the inputs of one    *)
(* function no atom's text occurs inside another atom's text, so substring *)
(* search on the Go string is subsequence search on the atoms.             *)
(***************************************************************************)
EXTENDS Integers, Sequences, FiniteSets, TLC

VARIABLES
    rwIn,       \* AppendSiteULID: the caller's arguments (siteULID, whereSQLOrMap, args)
    rwOut,      \* AppendSiteULID: what the first call returned
    rwOut2,     \* AppendSiteULID: what a second call on rwOut returned
    fsIn,       \* FormatSearch: the caller's searchText
    fsOut,      \* FormatSearch: what the call returned
    sink,       \* the slog sink: the records handed to it, in order
    lastLog,    \* the arguments of the last adapter Log call
    callers,    \* the goroutines that log: where each stands and what it passed
    settings,   \* store.Settings: what Get and IsProduction answer
    dbUp,       \* the environment: whether the database answers a ping now
    pc,         \* where getDBConnection stands
    local,      \* getDBConnection's locals: u, username, pass, host, port, ...
    db,         \* the *sql.DB handle: its DSN and pool limits; None before sql.Open
    logs,       \* what store.Logger was given, in order: <<level, message>>
    store,      \* the *Datastore New returned: its DB and Cache fields; None before New
    pools,      \* the connection pools New created: state and who closed them
    calls,      \* the methods called on the Datastore so far, in order
    fault,      \* the runtime panic that ended the process, None while it runs
    stages,     \* the bootstrap stages entered so far, in order
    probes,     \* liveness probes: tried by MustPing, and answered in all
    globals,    \* package state of dat and runner: cache, EnableInterpolation, Strict
    result      \* what getDBConnection returned; None while it has not

rwVars   == <<rwIn, rwOut, rwOut2>>
fsVars   == <<fsIn, fsOut>>
logVars  == <<sink, lastLog, callers>>
bootVars == <<settings, dbUp, pc, local, db, logs, stages, probes, globals, result>>
storeVars == <<store, pools, calls, fault>>
vars     == <<rwVars, fsVars, logVars, bootVars, storeVars>>

----------------------------------------------------------------------------
(* Bounds of the model. *)

\* longest whereSQLOrMap, in atoms
MaxClauseLen == 5
\* longest searchText, in characters
MaxSearchLen == 5
\* largest source level value a driver hands to an adapter
MaxLevel == 7
\* most records the sink keeps in the model
MaxSink == 1
\* the ticks of MustPing's exponential backoff before its ceiling is reached
MaxRetries == 3
\* most errors one migration run reports
MaxErrs == 2

\* the calls made on a Datastore in one run, New included
MaxCalls == 4

\* the Log calls one goroutine makes
MaxLogCalls == 2

----------------------------------------------------------------------------
(* package strings / strconv, on sequences of atoms *)

\* a value that is no result: the call has not been made
None == [none |-> TRUE]

\* the start positions of pattern p in s
Occurrences(s, p) ==
    {i \in 1..(Len(s) - Len(p) + 1) : SubSeq(s, i, i + Len(p) - 1) = p}

\* strings.Index, 1-based; 0 when p does not occur
Index(s, p) ==
    IF Occurrences(s, p) = {} THEN 0
    ELSE CHOOSE i \in Occurrences(s, p) : \A j \in Occurrences(s, p) : i <= j

\* strings.Contains
Contains(s, p) == Occurrences(s, p) # {}

RECURSIVE Split(_, _)
\* strings.Split(s, sep) for a non-empty sep: the pieces around every
\* non-overlapping occurrence of sep, left to right
Split(s, sep) ==
    LET i == Index(s, sep) IN
    IF i = 0 THEN <<s>>
    ELSE <<SubSeq(s, 1, i - 1)>> \o Split(SubSeq(s, i + Len(sep), Len(s)), sep)

RECURSIVE Join(_, _)
\* strings.Join
Join(parts, sep) ==
    IF Len(parts) = 0 THEN <<>>
    ELSE IF Len(parts) = 1 THEN parts[1]
    ELSE parts[1] \o sep \o Join(Tail(parts), sep)

\* strings.Replace(s, old, new, -1) for a non-empty old
Replace(s, old, new) == Join(Split(s, old), new)

\* strings.Count for a non-empty pattern: non-overlapping occurrences
Count(s, p) == Len(Split(s, p)) - 1

Digit == <<"0", "1", "2", "3", "4", "5", "6", "7", "8", "9">>

RECURSIVE Itoa(_)
\* strconv.Itoa for n >= 0: the decimal digits of n
Itoa(n) ==
    IF n < 10 THEN <<Digit[n + 1]>>
    ELSE Itoa(n \div 10) \o <<Digit[(n % 10) + 1]>>

\* all sequences over S of length at most n
SeqUpTo(S, n) == UNION {[1..k -> S] : k \in 0..n}

\* getDBConnection has neither returned nor panicked
NoResult == [kind |-> "none", value |-> <<>>]

\* New has not been called
StoreIdle == store = None /\ pools = None /\ calls = <<>> /\ fault = None

\* getDBConnection is not running
BootIdle ==
    /\ settings = None /\ dbUp = FALSE /\ pc = "Idle" /\ local = None
    /\ db = None /\ logs = <<>> /\ stages = <<>>
    /\ probes = None /\ globals = None /\ result = NoResult


----------------------------------------------------------------------------
(* Predicate Rewriter: AppendSiteULID *)

\* a slip: the guard looks for the predicate together with its " and "
FinishedPredicateWithAnd == <<" ", "and", " ", "site_ulid = ", "$">>

\* "$SITEULID"
Placeholder == <<"$", "SITEULID">>
\* ".$SITEULID"
DotPlaceholder == <<".">> \o Placeholder
\* " site_ulid = $"
FinishedPredicate == <<" ", "site_ulid = ", "$">>
\* a slip: the message names no clause
MissingPlaceholderNoClause(whereSQLOrMap) ==
    <<"No $SITEULID placeholder defined">>

\* errors.New("No $SITEULID placeholder defined in " + whereSQLOrMap)
MissingPlaceholder(whereSQLOrMap) ==
    <<"No $SITEULID placeholder defined in ">> \o whereSQLOrMap
\* a nil error
NoErr == <<>>

\* args = append(args, siteULID)
AppendArg(args, siteULID) == Append(args, siteULID)

\* a slip: the position is taken before the tenant is appended
PositionBeforeAppend(args) == Len(args) - 1

\* position := len(args)
Position(args) == Len(args)

AppendSiteULID(siteULID, whereSQLOrMap, args) ==
    IF Contains(whereSQLOrMap, FinishedPredicate)
    THEN [clause |-> whereSQLOrMap, args |-> args, err |-> NoErr]
    ELSE IF ~Contains(whereSQLOrMap, Placeholder)
    THEN [clause |-> whereSQLOrMap, args |-> args,
          err |-> MissingPlaceholder(whereSQLOrMap)]
    ELSE
      LET args1    == AppendArg(args, siteULID)
          position == Position(args1)
          newSQL   == Split(whereSQLOrMap, Placeholder)[1]
          replaceSQLParts == Split(newSQL, <<" ">>)
          replaceSQLTablePrefix == replaceSQLParts[Len(replaceSQLParts)]
      IN
      IF Contains(whereSQLOrMap, DotPlaceholder)
      THEN [clause |-> Replace(whereSQLOrMap,
                               replaceSQLTablePrefix \o Placeholder,
                               <<" ", "and", " ">> \o replaceSQLTablePrefix
                                  \o <<"site_ulid = ", "$">> \o Itoa(position)),
            args |-> args1, err |-> NoErr]
      ELSE IF Contains(whereSQLOrMap, Placeholder)
      THEN [clause |-> Replace(whereSQLOrMap, Placeholder,
                               <<" ", "site_ulid = ", "$">> \o Itoa(position)),
            args |-> args1, err |-> NoErr]
      ELSE [clause |-> whereSQLOrMap
                         \o <<" ", "and", " ", "site_ulid = ", "$">> \o Itoa(position),
            args |-> args1, err |-> NoErr]

\* the atoms a caller's clause is written with
ClauseAtoms == {" ", "\t", "$", "SITEULID", ".", "site_ulid = ", "b", "1"}
Clauses == SeqUpTo(ClauseAtoms, MaxClauseLen)
\* tenant identifiers
Tenants == {"T1", "T2"}
\* the argument lists a caller already supplies: 0, 1 and 9 bound parameters
\* (9 makes the new position a two-digit number)
ArgLists == {[i \in 1..n |-> "A"] : n \in {0, 1, 9}}

InitRewrite ==
    /\ rwIn \in [tenant : Tenants, clause : Clauses, args : ArgLists]
    /\ rwOut = None
    /\ rwOut2 = None
    /\ fsIn = <<>> /\ fsOut = None
    /\ sink = <<>> /\ lastLog = None /\ callers = None
    /\ BootIdle
    /\ StoreIdle

\* the caller calls AppendSiteULID(tenant, clause, args...)
CallAppendSiteULID ==
    /\ rwOut = None
    /\ rwOut' = AppendSiteULID(rwIn.tenant, rwIn.clause, rwIn.args)
    /\ UNCHANGED <<rwIn, rwOut2, fsVars, logVars, bootVars, storeVars>>

\* the caller calls AppendSiteULID again with what the first call returned
CallAppendSiteULIDAgain ==
    /\ rwOut # None
    /\ rwOut2 = None
    /\ rwOut2' = AppendSiteULID(rwIn.tenant, rwOut.clause, rwOut.args)
    /\ UNCHANGED <<rwIn, rwOut, fsVars, logVars, bootVars, storeVars>>

NextRewrite == CallAppendSiteULID \/ CallAppendSiteULIDAgain

SpecRewrite == InitRewrite /\ [][NextRewrite]_vars

----------------------------------------------------------------------------
(* Claims about AppendSiteULID, under SpecRewrite *)

\* "site_ulid = $": a finished tenant-column equality, bare or table-qualified
TenantPredicate == <<"site_ulid = ", "$">>
\* "site_ulid = $N"
TenantPredicateAt(n) == TenantPredicate \o Itoa(n)

\* C1: for every tenant, every argument list and every clause that holds the
\* placeholder $SITEULID exactly once (bare or table-qualified) and carries no
\* finished tenant predicate yet, AppendSiteULID returns no error, a clause with
\* exactly one occurrence of 'site_ulid = $N', and the arguments with the tenant
\* appended, N being the new argument count len(args)+1.
C1_RewriteOnce ==
    (/\ rwOut # None
     /\ Count(rwIn.clause, Placeholder) = 1
     /\ ~Contains(rwIn.clause, TenantPredicate))
    => (/\ rwOut.err = NoErr
        /\ Count(rwOut.clause, TenantPredicateAt(Len(rwIn.args) + 1)) = 1
        /\ Len(rwOut.args) = Len(rwIn.args) + 1
        /\ SubSeq(rwOut.args, 1, Len(rwIn.args)) = rwIn.args
        /\ rwOut.args[Len(rwOut.args)] = rwIn.tenant)

\* C1's case: a table-qualified placeholder rewritten after nine caller
\* arguments, so the predicate reads 'b.site_ulid = $10'
C1_Witness ==
    /\ rwOut # None
    /\ rwIn.clause = <<"b", ".">> \o Placeholder \o <<"b">>
    /\ Len(rwIn.args) = 9
    /\ rwOut.clause = <<" ", "and", " ", "b", ".", "site_ulid = ", "$", "1", "0", "b">>
    /\ rwOut.args[10] = rwIn.tenant

\* C2: a clause with neither the placeholder nor the finished predicate
\* ' site_ulid = $' gets an error whose message carries the clause, and the
\* clause and the arguments come back exactly as given; nothing reaches the
\* log sink.
C2_MissingPlaceholder ==
    (/\ rwOut # None
     /\ ~Contains(rwIn.clause, Placeholder)
     /\ ~Contains(rwIn.clause, FinishedPredicate))
    => (/\ rwOut.err # NoErr
        /\ Len(rwOut.err) = Len(rwIn.clause) + 1
        /\ SubSeq(rwOut.err, 2, Len(rwOut.err)) = rwIn.clause
        /\ rwOut.clause = rwIn.clause
        /\ rwOut.args = rwIn.args
        /\ sink = <<>>)

\* C2's case: a non-empty clause without placeholder was refused
C2_Witness ==
    /\ rwOut # None
    /\ rwIn.clause = <<"b", " ", "b", ".", "b">>
    /\ Len(rwIn.args) = 1
    /\ rwOut.err = <<"No $SITEULID placeholder defined in ", "b", " ", "b", ".", "b">>

\* C3: idempotence. After a call that rewrote the clause (bare or
\* table-qualified placeholder), a second call with the returned clause and
\* arguments returns them unchanged, with no error.
C3_Idempotent ==
    (/\ rwOut2 # None
     /\ rwOut.err = NoErr
     /\ rwOut.clause # rwIn.clause)
    => (/\ rwOut2.err = NoErr
        /\ rwOut2.clause = rwOut.clause
        /\ rwOut2.args = rwOut.args)

----------------------------------------------------------------------------
(* Search Normalizer: FormatSearch.  Every atom is one character. *)

\* the hexadecimal digits url.QueryUnescape accepts after a '%'
HexDigits == {"0", "1", "2", "3", "4", "5", "6", "7", "8", "9",
              "a", "b", "c", "d", "e", "f", "A", "B", "C", "D", "E", "F"}

\* the value of a hexadecimal digit (the digits the model's inputs hold)
Unhex(c) == CASE c = "0" -> 0 [] c = "2" -> 2

\* the character with byte value n (the values the model's inputs decode to)
Chr(n) == CASE n = 32 -> " " [] n = 34 -> "\"" [] n = 0 -> "\\x00" [] n = 2 -> "\\x02"

RECURSIVE BadEscape(_)
\* url.QueryUnescape's first pass: TRUE when some '%' is not followed by two
\* hexadecimal digits (the call then returns an EscapeError)
BadEscape(s) ==
    IF s = <<>> THEN FALSE
    ELSE IF s[1] = "%"
    THEN IF Len(s) >= 3 /\ s[2] \in HexDigits /\ s[3] \in HexDigits
         THEN BadEscape(SubSeq(s, 4, Len(s)))
         ELSE TRUE
    ELSE BadEscape(Tail(s))

RECURSIVE Unescape(_)
\* url.QueryUnescape's second pass on a string without bad escapes:
\* '%XX' decodes to the byte XX, '+' to a space
Unescape(s) ==
    IF s = <<>> THEN <<>>
    ELSE IF s[1] = "%"
    THEN <<Chr(16 * Unhex(s[2]) + Unhex(s[3]))>> \o Unescape(SubSeq(s, 4, Len(s)))
    ELSE IF s[1] = "+" THEN <<" ">> \o Unescape(Tail(s))
    ELSE <<s[1]>> \o Unescape(Tail(s))

RECURSIVE ReplaceEmpty(_, _)
\* strings.Replace(s, "", new, -1): new is inserted before every character
\* and at the end of the string
ReplaceEmpty(s, new) ==
    IF s = <<>> THEN new
    ELSE new \o <<s[1]>> \o ReplaceEmpty(Tail(s), new)

RECURSIVE TrimLeft(_, _)
TrimLeft(s, c) ==
    IF s # <<>> /\ s[1] = c THEN TrimLeft(Tail(s), c) ELSE s

RECURSIVE TrimRight(_, _)
TrimRight(s, c) ==
    IF s # <<>> /\ s[Len(s)] = c THEN TrimRight(SubSeq(s, 1, Len(s) - 1), c) ELSE s

\* strings.Trim(s, c) for a one-character cutset
Trim(s, c) == TrimRight(TrimLeft(s, c), c)

\* ":* & "
PrefixAnd == <<":", "*", " ", "&", " ">>
\* ":*"
PrefixMark == <<":", "*">>

\* the decode-failure fallback: '%20' becomes '|', then strings.Replace with an
\* empty old string puts a '|' around every character
Fallback(originalSearchText) ==
    ReplaceEmpty(Replace(originalSearchText, <<"%", "2", "0">>, <<"|">>), <<"|">>)

\* strings.Split(searchText, " "): the pieces between single spaces
SplitTokens(searchText) == Split(searchText, <<" ">>)

FormatSearch(searchText) ==
    IF searchText = <<>> THEN <<>>
    ELSE
      LET decoded == IF BadEscape(searchText)
                     THEN Fallback(searchText)
                     ELSE Unescape(searchText)
          noAt    == Replace(decoded, <<"@">>, <<" ">>)
          noDot   == Replace(noAt, <<".">>, <<" ">>)
          trimmed == Trim(noDot, " ")
      IN Join(SplitTokens(trimmed), PrefixAnd) \o PrefixMark

\* the characters a search text is typed with ("x" stands for any letter
\* that is no hexadecimal digit)
SearchChars == {"x", "@", ".", " ", "+", "%", "2", "0"}
SearchTexts == SeqUpTo(SearchChars, MaxSearchLen)

InitSearch ==
    /\ fsIn \in SearchTexts
    /\ fsOut = None
    /\ rwIn = None /\ rwOut = None /\ rwOut2 = None
    /\ sink = <<>> /\ lastLog = None /\ callers = None
    /\ BootIdle
    /\ StoreIdle

\* the caller calls FormatSearch(searchText)
CallFormatSearch ==
    /\ fsOut = None
    /\ fsOut' = [text |-> FormatSearch(fsIn)]
    /\ UNCHANGED <<fsIn, rwVars, logVars, bootVars, storeVars>>

NextSearch == CallFormatSearch

SpecSearch == InitSearch /\ [][NextSearch]_vars

----------------------------------------------------------------------------
(* Claims about FormatSearch, under SpecSearch *)

RECURSIVE NonEmpty(_)
\* the non-empty members of a sequence of strings, in order
NonEmpty(parts) ==
    IF parts = <<>> THEN <<>>
    ELSE IF parts[1] = <<>> THEN NonEmpty(Tail(parts))
    ELSE <<parts[1]>> \o NonEmpty(Tail(parts))

RECURSIVE WithMark(_)
\* every token followed by ':*'
WithMark(tokens) ==
    IF tokens = <<>> THEN <<>>
    ELSE <<tokens[1] \o PrefixMark>> \o WithMark(Tail(tokens))

\* the whitespace-separated tokens of the decoded text, '@' and '.' taken as
\* separators: the text is cut at every space and the empty pieces dropped
SearchTokens(decoded) ==
    NonEmpty(Split(Replace(Replace(decoded, <<"@">>, <<" ">>), <<".">>, <<" ">>),
                   <<" ">>))

\* C5: FormatSearch("") = ""; for a non-empty input that URL-decodes, the
\* result is the whitespace-separated tokens of the decoded input ('@' and '.'
\* being separators), each followed by ':*' and joined by ' & ', so no empty
\* token appears, also with adjacent separators or an input of separators only.
C5_PrefixAndTokens ==
    (fsOut # None /\ ~BadEscape(fsIn))
    => fsOut.text = Join(WithMark(SearchTokens(Unescape(fsIn))), <<" ", "&", " ">>)

----------------------------------------------------------------------------
(* Logging Bridge: slogAdapter.Log, slogPgxAdapter.Log, log *)

\* type loglevel uint8: levelTrace, levelDebug, levelInfo, levelError (iota)
levelTrace == 0
levelDebug == 1
levelInfo  == 2
levelError == 3

\* github.com/simukti/sqldb-logger: type Level uint8 (iota)
sqldbLevelDebug == 1
sqldbLevelInfo  == 2
sqldbLevelError == 3

\* github.com/jackc/pgx/v5/tracelog: type LogLevel int
tracelogLevelError == 2
tracelogLevelInfo  == 4
tracelogLevelDebug == 5

\* the switch of slogAdapter.Log: ll starts as levelTrace
slogAdapterLevel(level) ==
    CASE level = sqldbLevelError -> levelError
      [] level = sqldbLevelInfo  -> levelInfo
      [] level = sqldbLevelDebug -> levelDebug
      [] OTHER                   -> levelTrace

\* the switch of slogPgxAdapter.Log: ll starts as levelTrace; the third case
\* compares with tracelog.LogLevel(levelDebug), the number 1
slogPgxAdapterLevel(level) ==
    CASE level = tracelogLevelError -> levelError
      [] level = tracelogLevelInfo  -> levelInfo
      [] level = levelDebug         -> levelDebug
      [] OTHER                      -> levelTrace

\* a slip: levels without a case of their own are logged as Info
SinkSeverityDefaultInfo(level) ==
    CASE level = levelError -> "ERROR"
      [] level = levelInfo  -> "INFO"
      [] level = levelDebug -> "DEBUG"
      [] OTHER              -> "INFO"

\* the switch of log: which method of the slog.Logger gets the record
SinkSeverity(level) ==
    CASE level = levelError -> "ERROR"
      [] level = levelInfo  -> "INFO"
      [] level = levelDebug -> "DEBUG"
      [] OTHER              -> "DEBUG"

\* a slip: only the newlines are replaced, tabs stay
FlattenNewlinesOnly(v) == Replace(v, <<"\n">>, <<" ">>)

\* v = ReplaceAll(ReplaceAll(v, "\n", " "), "\t", " ") for the key "sql"
FlattenSQL(v) == Replace(Replace(v, <<"\n">>, <<" ">>), <<"\t">>, <<" ">>)

\* one attribute of the record: slog.Any(k, v), the value of "sql" flattened
Attr(k, v) == <<k, IF k = "sql" THEN FlattenSQL(v) ELSE v>>

\* the keys the loop over data emits: every key but "time"
EmittedKeys(data) == (DOMAIN data) \ {"time"}

\* the orders in which the range over the map data may visit the keys ks
Orders(ks) ==
    {o \in [1..Cardinality(ks) -> ks] : \A i, j \in 1..Cardinality(ks) : o[i] = o[j] => i = j}

\* log(logger, ctx, level, msg, data) with the keys visited in the order o:
\* the record the sink receives
log(level, msg, data, o) ==
    [severity |-> SinkSeverity(level),
     message  |-> "DB",
     args     |-> [i \in 1..Len(o) |-> Attr(o[i], data[o[i]])] \o <<<<"sql", msg>>>>]

\* a slip: the record is handed to the sink twice
EmitTwice(records, rec) == records \o <<rec, rec>>

\* logger.ErrorContext / InfoContext / DebugContext: the sink takes the record
\* during the call, behind the records it already has
Emit(records, rec) == Append(records, rec)

\* the values of a "sql" field and of msg: SQL text with control whitespace
SQLTexts == {<<"q">>, <<"q", "\n", "\t", "q">>}
\* the values a driver gives the field k
FieldValues(k) == IF k = "sql" THEN SQLTexts ELSE {<<"v">>}
\* the field maps a driver passes
FieldMaps ==
    UNION {{data \in [ks -> SQLTexts \cup {<<"v">>}] :
              \A k \in ks : data[k] \in FieldValues(k)} :
           ks \in SUBSET {"time", "sql", "duration"}}

\* sqldblogger.Level is a uint8, tracelog.LogLevel an int
SqldbLevels == (0..MaxLevel) \cup {255}
TracelogLevels == (-1)..MaxLevel

InitLog ==
    /\ sink = <<>>
    /\ lastLog = None
    /\ callers = None
    /\ rwIn = None /\ rwOut = None /\ rwOut2 = None
    /\ fsIn = <<>> /\ fsOut = None
    /\ BootIdle
    /\ StoreIdle

\* sqldb-logger calls (*slogAdapter).Log(ctx, level, msg, data)
slogAdapterLog ==
    /\ Len(sink) < MaxSink
    /\ \E level \in SqldbLevels, msg \in SQLTexts, data \in FieldMaps :
         \E o \in Orders(EmittedKeys(data)) :
           /\ sink' = Emit(sink, log(slogAdapterLevel(level), msg, data, o))
           /\ lastLog' = [adapter |-> "sqldb", level |-> level, msg |-> msg, data |-> data]
    /\ UNCHANGED <<callers, rwVars, fsVars, bootVars, storeVars>>

\* pgx's tracer calls (*slogPgxAdapter).Log(ctx, level, msg, data)
slogPgxAdapterLog ==
    /\ Len(sink) < MaxSink
    /\ \E level \in TracelogLevels, msg \in SQLTexts, data \in FieldMaps :
         \E o \in Orders(EmittedKeys(data)) :
           /\ sink' = Emit(sink, log(slogPgxAdapterLevel(level), msg, data, o))
           /\ lastLog' = [adapter |-> "pgx", level |-> level, msg |-> msg, data |-> data]
    /\ UNCHANGED <<callers, rwVars, fsVars, bootVars, storeVars>>

NextLog == slogAdapterLog \/ slogPgxAdapterLog

SpecLog == InitLog /\ [][NextLog]_vars

----------------------------------------------------------------------------
(* Claims about the Logging Bridge, under SpecLog *)

\* the severity the claim gives a source level of each adapter
ExpectedSeverity(adapter, level) ==
    IF adapter = "sqldb"
    THEN (IF level = 3 THEN "ERROR" ELSE IF level = 2 THEN "INFO" ELSE "DEBUG")
    ELSE (IF level = 2 THEN "ERROR" ELSE IF level = 4 THEN "INFO" ELSE "DEBUG")

\* C6: for both adapters and every source level value, defined or not, the
\* record of a Log call reaches the sink (it is the last record, nothing is
\* dropped) with exactly the severity Error for the source's Error level, Info
\* for its Info level and Debug for its Debug level and every other value.
C6_LevelMapping ==
    lastLog # None
    => (/\ sink # <<>>
        /\ sink[Len(sink)].severity = ExpectedSeverity(lastLog.adapter, lastLog.level)
        /\ sink[Len(sink)].args[Len(sink[Len(sink)].args)] = <<"sql", lastLog.msg>>)

\* C6's case: pgx logged at its Debug level (5), which no case of the
\* adapter's switch names, and the record reached the sink as Debug
C6_Witness ==
    /\ Len(sink) = 1
    /\ lastLog # None
    /\ lastLog.adapter = "pgx"
    /\ lastLog.level = tracelogLevelDebug
    /\ sink[1].severity = "DEBUG"
    /\ sink[1].args = <<<<"sql", <<"q">>>>>>

----------------------------------------------------------------------------
(* Connection Bootstrap: getDBConnection *)

\* strings.LastIndex, 1-based; 0 when p does not occur
LastIndex(s, p) ==
    IF Occurrences(s, p) = {} THEN 0
    ELSE CHOOSE i \in Occurrences(s, p) : \A j \in Occurrences(s, p) : j <= i

\* strings.Replace(s, old, new, 1): the first occurrence only
ReplaceFirst(s, old, new) ==
    LET i == Index(s, old) IN
    IF i = 0 THEN s
    ELSE SubSeq(s, 1, i - 1) \o new \o SubSeq(s, i + Len(old), Len(s))

\* url.Parse of "scheme://[user[:password]@]host[:port]/path".  The scheme with
\* its "://" is the first atom; "%zz" is an escape url.Parse rejects.
ParseURL(dbURL) ==
    LET rest      == Tail(dbURL)
        slash     == Index(rest, <<"/">>)
        authority == IF slash = 0 THEN rest ELSE SubSeq(rest, 1, slash - 1)
        path      == IF slash = 0 THEN <<>> ELSE SubSeq(rest, slash, Len(rest))
        at        == LastIndex(authority, <<"@">>)
        userinfo  == SubSeq(authority, 1, at - 1)
        colon     == Index(userinfo, <<":">>)
    IN
    IF dbURL = <<>> \/ Contains(dbURL, <<"%zz">>)
    THEN [err |-> <<"parse ">> \o dbURL \o <<": invalid URL escape">>]
    ELSE [err      |-> NoErr,
          hasUser  |-> at # 0,
          username |-> IF at = 0 THEN <<>>
                       ELSE IF colon = 0 THEN userinfo
                       ELSE SubSeq(userinfo, 1, colon - 1),
          password |-> IF at = 0 \/ colon = 0 THEN <<>>
                       ELSE SubSeq(userinfo, colon + 1, Len(userinfo)),
          passwordSet |-> at # 0 /\ colon # 0,
          Host     |-> SubSeq(authority, at + 1, Len(authority)),
          Path     |-> path]

\* net.SplitHostPort: without a ":port" (or with a colon left in the host) it
\* returns an error and empty host and port
SplitHostPort(hostport) ==
    LET i == LastIndex(hostport, <<":">>) IN
    IF i = 0 \/ Contains(SubSeq(hostport, 1, i - 1), <<":">>)
    THEN [host |-> <<>>, port |-> <<>>, err |-> <<"missing port in address">>]
    ELSE [host |-> SubSeq(hostport, 1, i - 1),
          port |-> SubSeq(hostport, i + 1, Len(hostport)),
          err  |-> NoErr]

\* the sentinel host "GCLOUD_SQL_INSTANCE"
Sentinel == <<"GCLOUD_SQL_INSTANCE">>

\* the host after the sentinel check:
\*   if host == "GCLOUD_SQL_INSTANCE" { host = "/cloudsql" + Settings.Get(...) }
ResolvedHost(host, gcloudSQLInstance) ==
    IF host = Sentinel THEN <<"/cloudsql">> \o gcloudSQLInstance ELSE host

\* dbStr := "dbname=" + dbName + " user=" + username + " host=" + host
\* if port != "" { dbStr += " port=" + port }
DbStr(dbName, username, host, port) ==
    <<"dbname=">> \o dbName \o <<" user=">> \o username \o <<" host=">> \o host
      \o (IF port # <<>> THEN <<" port=">> \o port ELSE <<>>)

\* dbStr + " password=" + pass + " sslmode=disable "
DSN(dbStr, pass) == dbStr \o <<" password=">> \o pass \o <<" sslmode=disable ">>

\* db.SetMaxIdleConns(4)
MaxIdleConns == 4
\* db.SetMaxOpenConns(16)
MaxOpenConns == 16

\* a slip: only the first error makes it into the message
FinalErrorFirstOnly(errs) ==
    IF errs = <<>> THEN <<>> ELSE <<errs[1], "\n">>

\* a slip: only the idle cap is set, the open connections stay unlimited
SetIdleLimitOnly(handle) == [handle EXCEPT !.maxIdle = MaxIdleConns]

\* db.SetMaxIdleConns(4); db.SetMaxOpenConns(16)
SetPoolLimits(handle) ==
    [handle EXCEPT !.maxIdle = MaxIdleConns, !.maxOpen = MaxOpenConns]

\* finalError: every err.Error() followed by "\n"
RECURSIVE FinalError(_)
FinalError(errs) ==
    IF errs = <<>> THEN <<>>
    ELSE <<errs[1], "\n">> \o FinalError(Tail(errs))

\* a slip: the pool is configured right after sql.Open, before any ping
AfterPoolBeforePing(step) ==
    CASE step = "ParseConnectionString" -> "Credentials"
      [] step = "Credentials"   -> "ResolveHost"
      [] step = "ResolveHost"   -> "OpenHandle"
      [] step = "OpenHandle"    -> "ConfigurePool"
      [] step = "ConfigurePool" -> "Ping"
      [] step = "Ping"          -> "MustPing"
      [] step = "MustPing"      -> "SetCache"
      [] step = "SetCache"      -> "MaybeMigrate"
      [] step = "MaybeMigrate"  -> "Return"
      [] step = "Return"        -> "Ready"

\* the statement order of getDBConnection: where control goes when a step
\* neither panics nor repeats
After(step) ==
    CASE step = "ParseConnectionString" -> "Credentials"
      [] step = "Credentials"   -> "ResolveHost"
      [] step = "ResolveHost"   -> "OpenHandle"
      [] step = "OpenHandle"    -> "Ping"
      [] step = "Ping"          -> "MustPing"
      [] step = "MustPing"      -> "SetCache"
      [] step = "SetCache"      -> "ConfigurePool"
      [] step = "ConfigurePool" -> "MaybeMigrate"
      [] step = "MaybeMigrate"  -> "Return"
      [] step = "Return"        -> "Ready"

\* the connection strings of the model: with or without user, password, port;
\* a plain host, the sentinel, or a host with an escape url.Parse rejects
UserInfos == {<<>>, <<"user", "@">>, <<"user", ":", "@">>,
              <<"user", ":", "pw1", "@">>, <<"user", ":", "pw2", "@">>}
Hosts == {<<"db.local">>, Sentinel, <<"%zz">>}
Ports == {<<>>, <<":", "5432">>}
DatabaseURLs ==
    {<<"postgres://">> \o ui \o h \o pt \o <<"/", "app">> :
        ui \in UserInfos, h \in Hosts, pt \in Ports}

\* the values of the GCLOUD_SQL_INSTANCE setting: unset, "/cloudsql/x:y:z", "/x:y:z"
GcloudInstances == {<<>>, <<"/cloudsql", "/x:y:z">>, <<"/x:y:z">>}

Init ==
    /\ settings \in [DATABASE_URL : DatabaseURLs,
                     GCLOUD_SQL_INSTANCE : GcloudInstances,
                     CACHE_NAMESPACE : {<<>>, <<"ns">>},
                     IsProduction : BOOLEAN]
    /\ dbUp \in BOOLEAN
    /\ pc = "ParseConnectionString"
    /\ local = [u |-> None, username |-> <<>>, pass |-> <<>>, isPassSet |-> FALSE,
                host |-> <<>>, port |-> <<>>, dbName |-> <<>>, dbStr |-> <<>>,
                errs |-> <<>>]
    /\ db = None
    /\ logs = <<>>
    /\ stages = <<>>
    /\ probes = [retries |-> 0, answered |-> 0]
    /\ globals = [cache |-> FALSE, EnableInterpolation |-> FALSE, Strict |-> FALSE,
                  migrated |-> FALSE]
    /\ result = NoResult
    /\ rwIn = None /\ rwOut = None /\ rwOut2 = None
    /\ fsIn = <<>> /\ fsOut = None
    /\ sink = <<>> /\ lastLog = None /\ callers = None
    /\ StoreIdle

\* panic(cause): getDBConnection unwinds without returning
Panic(cause) ==
    /\ pc' = "Panic"
    /\ result' = [kind |-> "panic", value |-> cause]

\* u, err := url.Parse(dbURL); if err != nil { store.Logger.Error(err) }
ParseConnectionString ==
    /\ pc = "ParseConnectionString"
    /\ LET u == ParseURL(settings.DATABASE_URL) IN
         /\ local' = [local EXCEPT !.u = u]
         /\ logs' = IF u.err # NoErr THEN Append(logs, <<"ERROR", u.err>>) ELSE logs
    /\ stages' = Append(stages, "ParseConnectionString")
    /\ pc' = After(pc)
    /\ UNCHANGED <<settings, dbUp, db, probes, globals, result, rwVars, fsVars, logVars, storeVars>>

\* a slip: a missing password is not reported
PasswordReportNever(isPassSet) == <<>>

\* if !isPassSet { store.Logger.Error("no database password") }
PasswordReport(isPassSet) ==
    IF ~isPassSet THEN << <<"ERROR", <<"no database password">>>> >> ELSE <<>>

\* username := u.User.Username(); pass, isPassSet := u.User.Password() ...;
\* host, port, _ := net.SplitHostPort(u.Host); dbName := ...
\* After a failed parse u is nil and u.User is a nil pointer dereference.
Credentials ==
    /\ pc = "Credentials"
    /\ IF local.u.err # NoErr
       THEN /\ Panic(<<"invalid memory address or nil pointer dereference">>)
            /\ UNCHANGED <<local, logs>>
       ELSE LET hp == SplitHostPort(local.u.Host) IN
            /\ local' = [local EXCEPT !.username = local.u.username,
                                      !.pass = local.u.password,
                                      !.isPassSet = local.u.passwordSet,
                                      !.host = hp.host,
                                      !.port = hp.port,
                                      !.dbName = ReplaceFirst(local.u.Path, <<"/">>, <<>>)]
            /\ logs' = logs \o PasswordReport(local.u.passwordSet)
            /\ pc' = After(pc)
            /\ UNCHANGED result
    /\ UNCHANGED <<settings, dbUp, db, stages, probes, globals, rwVars, fsVars, logVars, storeVars>>

\* the sentinel check, dbStr and store.Logger.Info(dbStr)
ResolveHost ==
    /\ pc = "ResolveHost"
    /\ LET host  == ResolvedHost(local.host, settings.GCLOUD_SQL_INSTANCE)
           dbStr == DbStr(local.dbName, local.username, host, local.port)
       IN /\ local' = [local EXCEPT !.host = host, !.dbStr = dbStr]
          /\ logs' = Append(logs, <<"INFO", dbStr>>)
    /\ stages' = Append(stages, "ResolveHost")
    /\ pc' = After(pc)
    /\ UNCHANGED <<settings, dbUp, db, probes, globals, result, rwVars, fsVars, logVars, storeVars>>

\* db, _ := sql.Open("postgres", dbStr+" password="+pass+" sslmode=disable ")
\* A fresh *sql.DB keeps 2 idle connections and has no limit on open ones.
OpenHandle ==
    /\ pc = "OpenHandle"
    /\ db' = [dsn |-> DSN(local.dbStr, local.pass), maxIdle |-> 2, maxOpen |-> 0]
    /\ stages' = Append(stages, "OpenHandle")
    /\ pc' = After(pc)
    /\ UNCHANGED <<settings, dbUp, local, logs, probes, globals, result,
                   rwVars, fsVars, logVars, storeVars>>

\* err = db.Ping(); if err != nil { store.Logger.Error(err); panic(err) }
\* store.Logger.Info("database running")
Ping ==
    /\ pc = "Ping"
    /\ stages' = Append(stages, "VerifyLive")
    /\ IF dbUp
       THEN /\ probes' = [probes EXCEPT !.answered = @ + 1]
            /\ logs' = Append(logs, <<"INFO", <<"database running">>>>)
            /\ pc' = After(pc)
            /\ UNCHANGED result
       ELSE /\ logs' = Append(logs, <<"ERROR", <<"connection refused">>>>)
            /\ Panic(<<"connection refused">>)
            /\ UNCHANGED probes
    /\ UNCHANGED <<settings, dbUp, local, db, globals, rwVars, fsVars, logVars, storeVars>>

\* runner.MustPing(db): one tick of the exponential backoff.  A ping that is
\* answered ends the loop; one that is not is retried until the ceiling.
MustPingTick ==
    /\ pc = "MustPing"
    /\ probes.retries < MaxRetries
    /\ IF dbUp
       THEN /\ probes' = [probes EXCEPT !.answered = @ + 1]
            /\ pc' = After(pc)
       ELSE /\ probes' = [probes EXCEPT !.retries = @ + 1]
            /\ pc' = pc
    /\ UNCHANGED <<settings, dbUp, local, db, logs, stages, globals, result,
                   rwVars, fsVars, logVars, storeVars>>

\* runner.MustPing(db): the ceiling is reached, MustPing panics
MustPingGiveUp ==
    /\ pc = "MustPing"
    /\ probes.retries >= MaxRetries
    /\ Panic(<<"Could not ping database!">>)
    /\ UNCHANGED <<settings, dbUp, local, db, logs, stages, probes, globals,
                   rwVars, fsVars, logVars, storeVars>>

\* a slip: the cache block runs whatever the setting says
CacheConfiguredAlways(s) == TRUE

\* store.Settings.Get("CACHE_NAMESPACE") != ""
CacheConfigured(s) == s.CACHE_NAMESPACE # <<>>

\* if store.Settings.Get("CACHE_NAMESPACE") != "" { cache, err := kvs.NewRedisStore(...)
\*   if err != nil { Error(err); panic(err) }; Info("USING CACHE", ...); runner.SetCache(cache) }
SetCache ==
    /\ pc = "SetCache"
    /\ IF CacheConfigured(settings)
       THEN \E redisUp \in BOOLEAN :
              IF redisUp
              THEN /\ logs' = Append(logs, <<"INFO", <<"USING CACHE">> \o settings.CACHE_NAMESPACE>>)
                   /\ globals' = [globals EXCEPT !.cache = TRUE]
                   /\ pc' = After(pc)
                   /\ UNCHANGED result
              ELSE /\ logs' = Append(logs, <<"ERROR", <<"redis: connection refused">>>>)
                   /\ Panic(<<"redis: connection refused">>)
                   /\ UNCHANGED globals
       ELSE /\ pc' = After(pc)
            /\ UNCHANGED <<logs, globals, result>>
    /\ UNCHANGED <<settings, dbUp, local, db, stages, probes, rwVars, fsVars, logVars, storeVars>>

\* db.SetMaxIdleConns(4); db.SetMaxOpenConns(16); dat.EnableInterpolation = true
ConfigurePool ==
    /\ pc = "ConfigurePool"
    /\ db' = SetPoolLimits(db)
    /\ globals' = [globals EXCEPT !.EnableInterpolation = TRUE]
    /\ stages' = Append(stages, "ConfigurePool")
    /\ pc' = After(pc)
    /\ UNCHANGED <<settings, dbUp, local, logs, probes, result, rwVars, fsVars, logVars, storeVars>>

\* the error lists migrate.UpSync may report; ok is reported when there is none
MigrationErrors == SeqUpTo({"e1", "e2"}, MaxErrs)

\* if store.Settings.IsProduction() { errs, ok := migrate.UpSync(...)
\*   if !ok { finalError := ...; store.Logger.Error(finalError) } } else { dat.Strict = true }
MaybeMigrate ==
    /\ pc = "MaybeMigrate"
    /\ IF settings.IsProduction
       THEN \E errs \in MigrationErrors :
              /\ local' = [local EXCEPT !.errs = errs]
              /\ globals' = [globals EXCEPT !.migrated = TRUE]
              /\ logs' = IF errs # <<>>
                         THEN Append(logs, <<"ERROR", FinalError(errs)>>)
                         ELSE logs
       ELSE /\ globals' = [globals EXCEPT !.Strict = TRUE]
            /\ UNCHANGED <<local, logs>>
    /\ stages' = Append(stages, "MaybeMigrate")
    /\ pc' = After(pc)
    /\ UNCHANGED <<settings, dbUp, db, probes, result, rwVars, fsVars, logVars, storeVars>>

\* return runner.NewDB(db, "postgres")
Return ==
    /\ pc = "Return"
    /\ result' = [kind |-> "handle", value |-> db]
    /\ pc' = After(pc)
    /\ UNCHANGED <<settings, dbUp, local, db, logs, stages, probes, globals,
                   rwVars, fsVars, logVars, storeVars>>

\* the environment: the database becomes reachable while bootstrap runs
DatabaseComesUp ==
    /\ pc \notin {"Ready", "Panic"}
    /\ ~dbUp
    /\ dbUp' = TRUE
    /\ UNCHANGED <<settings, pc, local, db, logs, stages, probes, globals, result,
                   rwVars, fsVars, logVars, storeVars>>

\* the environment: the database stops answering while bootstrap runs
DatabaseGoesDown ==
    /\ pc \notin {"Ready", "Panic"}
    /\ dbUp
    /\ dbUp' = FALSE
    /\ UNCHANGED <<settings, pc, local, db, logs, stages, probes, globals, result,
                   rwVars, fsVars, logVars, storeVars>>

\* one step of getDBConnection
BootStep ==
    \/ ParseConnectionString
    \/ Credentials
    \/ ResolveHost
    \/ OpenHandle
    \/ Ping
    \/ MustPingTick
    \/ MustPingGiveUp
    \/ SetCache
    \/ ConfigurePool
    \/ MaybeMigrate
    \/ Return

Next == BootStep \/ DatabaseComesUp \/ DatabaseGoesDown

Spec == Init /\ [][Next]_vars

\* the goroutine that runs getDBConnection keeps running, and the backoff's
\* ticker keeps ticking: a step of getDBConnection that can be taken is taken
SpecLive == Init /\ [][Next]_vars /\ WF_vars(BootStep)

----------------------------------------------------------------------------
(* Claims about the connection bootstrap *)

\* getDBConnection has ended: it returned or it panicked
Ended == pc \in {"Ready", "Panic"}

\* the run got as far as the liveness probe
ReachedVerifyLive == \E i \in 1..Len(stages) : stages[i] = "VerifyLive"

\* C4: if the database never answers a liveness probe, bootstrap never reaches
\* Ready and never returns a handle; VerifyLive exhausts its retry budget
\* before the fatal exit; and bootstrap always ends (Ready or fatal exit).
C4_UnreachableExhaustsBudget ==
    /\ [](probes.answered = 0 => pc # "Ready" /\ result.kind # "handle")
    /\ [](pc = "Panic" /\ ReachedVerifyLive /\ probes.answered = 0
            => probes.retries = MaxRetries)
    /\ <>Ended

\* the host of a connection target "... host=H [port=P] password=..."
HostOf(dsn) ==
    LET i    == Index(dsn, <<" host=">>)
        rest == SubSeq(dsn, i + 1, Len(dsn))
        j    == CHOOSE k \in 1..Len(rest) :
                   /\ rest[k] \in {" port=", " password="}
                   /\ \A m \in 1..(k - 1) : rest[m] \notin {" port=", " password="}
    IN SubSeq(rest, 1, j - 1)

\* the host url.Parse and net.SplitHostPort found in the connection string
ParsedHost == SplitHostPort(ParseURL(settings.DATABASE_URL).Host).host

\* C7: when the host parsed from the connection string is the sentinel
\* GCLOUD_SQL_INSTANCE, the host of the final connection target is exactly the
\* value of the GCLOUD_SQL_INSTANCE setting, and never the sentinel itself.
C7_SentinelHostVerbatim ==
    (db # None /\ ParseURL(settings.DATABASE_URL).err = NoErr /\ ParsedHost = Sentinel)
        => /\ HostOf(db.dsn) = settings.GCLOUD_SQL_INSTANCE
           /\ HostOf(db.dsn) # Sentinel

\* C8: if the connection string cannot be parsed, bootstrap ends at
\* ParseConnectionString: control never passes on to a later step, no handle
\* is returned, and the nil parse result is never dereferenced.
C8_ParseFailureStopsAtParse ==
    (ParseURL(settings.DATABASE_URL).err # NoErr /\ stages # <<>>)
        => /\ pc \in {"Panic"}
           /\ stages = <<"ParseConnectionString">>
           /\ result.kind = "panic"
           /\ result.value # <<"invalid memory address or nil pointer dereference">>

\* the stages in the order the bootstrap is documented to pass them
StageOrder ==
    <<"ParseConnectionString", "ResolveHost", "OpenHandle", "VerifyLive",
      "ConfigurePool", "MaybeMigrate">>

\* the pool limits have been set on the handle
PoolConfigured == db # None /\ db.maxIdle = MaxIdleConns /\ db.maxOpen = MaxOpenConns

\* migrations have been considered
MigrationsConsidered == \E i \in 1..Len(stages) : stages[i] = "MaybeMigrate"

\* C9: a run that reaches Ready went through the six stages once each and in
\* order; the pool is configured and migrations are considered only after a
\* liveness probe succeeded; the handle is returned only after all of them.
C9_StageOrder ==
    /\ pc = "Ready" => stages = StageOrder
    /\ \A i \in 1..Len(stages) : i <= Len(StageOrder) /\ stages[i] = StageOrder[i]
    /\ PoolConfigured => probes.answered >= 1
    /\ MigrationsConsidered => probes.answered >= 1 /\ PoolConfigured
    /\ result.kind = "handle" =>
          /\ pc = "Ready"
          /\ stages = StageOrder
          /\ PoolConfigured
          /\ result.value = db

\* C9: a production run that came through to Ready
C9_Witness ==
    /\ pc = "Ready"
    /\ result.kind = "handle"
    /\ settings.IsProduction
    /\ stages = StageOrder

\* the Logger entries that mention a migration error
MigrationLogs == SelectSeq(logs, LAMBDA e : \E i \in 1..Len(e[2]) : e[2][i] \in {"e1", "e2"})

\* the errors a message names, in order
ErrorsNamed(msg) == SelectSeq(msg, LAMBDA a : a \in {"e1", "e2"})

\* C10: migrations are attempted only in production; whatever they report,
\* the step after MaybeMigrate returns the live handle; the errors are logged
\* once, as one Error message that carries all of them.
C10_MigrateNeverPreventsReady ==
    /\ [](globals.migrated => settings.IsProduction)
    /\ [](pc \in {"Return", "Ready"} /\ settings.IsProduction =>
            /\ globals.migrated
            /\ IF local.errs = <<>>
               THEN MigrationLogs = <<>>
               ELSE /\ Len(MigrationLogs) = 1
                    /\ MigrationLogs[1][1] = "ERROR"
                    /\ ErrorsNamed(MigrationLogs[1][2]) = local.errs)
    /\ [](pc = "Ready" => result.kind = "handle" /\ result.value = db
                            /\ probes.answered >= 1)
    /\ (pc = "MaybeMigrate") ~> (pc = "Ready")

\* C10: a production run whose migration reported two errors came to Ready
C10_Witness ==
    /\ pc = "Ready"
    /\ result.kind = "handle"
    /\ local.errs = <<"e1", "e2">>
    /\ Len(MigrationLogs) = 1

----------------------------------------------------------------------------
(* Datastore Facade: New, Cleanup and the helpers called in between *)

\* a pool that was never created
NoPool == [state |-> "none", closedBy |-> <<>>]

\* a pool as sql.Open / xredis.SetupClient hands it out
OpenPool == [state |-> "open", closedBy |-> <<>>]

\* a slip: Close records a close every time it is called
CloseEveryTime(p, by) == [state |-> "closed", closedBy |-> Append(p.closedBy, by)]

\* (*sql.DB).Close and (*xredis.Client).Close: the first call closes the pool,
\* a call on a closed pool does nothing
Close(p, by) ==
    IF p.state = "open"
    THEN [state |-> "closed", closedBy |-> Append(p.closedBy, by)]
    ELSE p

\* u.Port(): what follows the last colon of the host
PortOf(host) ==
    LET i == LastIndex(host, <<":">>) IN
    IF i = 0 THEN <<>> ELSE SubSeq(host, i + 1, Len(host))

\* strconv.Atoi succeeds on a port number only
AtoiOK(port) == port \in {<<"6379">>, <<"5432">>}

\* the values of the CACHE_URL setting: unset, complete, without a port, unparsable
CacheURLs ==
    {<<>>,
     <<"redis://", ":", "pw", "@", "cache", ":", "6379">>,
     <<"redis://", "cache">>,
     <<"redis://", "%zz">>}

\* getCache: the *Cache it returns ("nil" or "client"), what it logs, and
\* whether xredis.SetupClient made a client
getCache(redisURL, redisUp) ==
    LET u == ParseURL(redisURL) IN
    IF redisURL # <<>> /\ u.err # NoErr
    THEN [cache |-> "nil", client |-> FALSE, logs |-> << <<"ERROR", u.err>> >>]
    ELSE IF redisURL # <<>> /\ ~AtoiOK(PortOf(u.Host))
    THEN [cache |-> "nil", client |-> FALSE,
          logs |-> << <<"ERROR", <<"cache couldn't parse port">>>> >>]
    ELSE IF ~redisUp
    THEN [cache |-> "nil", client |-> TRUE,
          logs |-> << <<"ERROR", <<"redis: connection refused">>>> >>]
    ELSE [cache |-> "client", client |-> TRUE,
          logs |-> << <<"INFO", <<"cache running", "PONG">>>> >>]

\* how getDBConnection can end inside New: it returns the handle, or it panics
\* before sql.Open (nil parse result) or after it (ping, cache, MustPing)
BootOutcomes == {"handle", "panic before sql.Open", "panic after sql.Open"}

\* a method called through a nil pointer
NilDereference == <<"invalid memory address or nil pointer dereference">>

\* the cache accessors of *Cache
CacheAccessors == {"Get", "Expire", "GetBytes", "Set", "SetBytes"}

\* the query and transaction helpers of *Datastore
QueryHelpers == {"Select", "One", "Tx", "Commit", "Rollback"}

InitStore ==
    /\ settings \in [CACHE_URL : CacheURLs]
    /\ dbUp = FALSE /\ pc = "Idle" /\ local = None /\ db = None
    /\ logs = <<>> /\ stages = <<>>
    /\ probes = None /\ globals = None /\ result = NoResult
    /\ store = None
    /\ pools = [sql |-> NoPool, redis |-> NoPool]
    /\ calls = <<>>
    /\ fault = None
    /\ rwIn = None /\ rwOut = None /\ rwOut2 = None
    /\ fsIn = <<>> /\ fsOut = None
    /\ sink = <<>> /\ lastLog = None /\ callers = None

\* New: store.Cache = getCache(store); store.DB = getDBConnection(store)
New ==
    /\ store = None /\ fault = None /\ calls = <<>>
    /\ \E redisUp \in BOOLEAN, boot \in BootOutcomes :
         LET c == getCache(settings.CACHE_URL, redisUp) IN
         /\ logs' = << <<"INFO", <<"Current IP Addresses">>>> >> \o c.logs
         /\ pools' = [sql   |-> IF boot = "panic before sql.Open" THEN NoPool ELSE OpenPool,
                      redis |-> IF c.client THEN OpenPool ELSE NoPool]
         /\ IF boot = "handle"
            THEN /\ store' = [DB |-> "db", Cache |-> c.cache]
                 /\ fault' = fault
            ELSE /\ store' = store
                 /\ fault' = [in |-> "getDBConnection", cause |-> boot]
    /\ calls' = <<"New">>
    /\ UNCHANGED <<settings, dbUp, pc, local, db, stages, probes, globals, result,
                   rwVars, fsVars, logVars>>

\* Cleanup: ds.DB.DB.Close(); ds.Cache.Client.Close()
Cleanup ==
    /\ store # None /\ fault = None
    /\ Len(calls) < MaxCalls
    /\ pools' = [sql   |-> Close(pools.sql, "Cleanup"),
                 redis |-> IF store.Cache = "nil" THEN pools.redis
                           ELSE Close(pools.redis, "Cleanup")]
    /\ fault' = IF store.Cache = "nil"
                THEN [in |-> "Cleanup", cause |-> NilDereference]
                ELSE fault
    /\ calls' = Append(calls, "Cleanup")
    /\ UNCHANGED <<store, bootVars, rwVars, fsVars, logVars>>

\* (*Cache).Get / Expire / GetBytes / Set / SetBytes: all go through
\* cache.Client and close nothing
CacheCall(name) ==
    /\ store # None /\ fault = None
    /\ Len(calls) < MaxCalls
    /\ fault' = IF store.Cache = "nil"
                THEN [in |-> name, cause |-> NilDereference]
                ELSE fault
    /\ calls' = Append(calls, name)
    /\ UNCHANGED <<store, pools, bootVars, rwVars, fsVars, logVars>>

\* (*Datastore).Select / One / Tx / Commit / Rollback: run on the pool and
\* close nothing
QueryCall(name) ==
    /\ store # None /\ fault = None
    /\ Len(calls) < MaxCalls
    /\ calls' = Append(calls, name)
    /\ UNCHANGED <<store, pools, fault, bootVars, rwVars, fsVars, logVars>>

NextStore ==
    \/ New
    \/ Cleanup
    \/ \E name \in CacheAccessors : CacheCall(name)
    \/ \E name \in QueryHelpers : QueryCall(name)

SpecStore == InitStore /\ [][NextStore]_vars

\* how often Cleanup has been called
Cleanups == Len(SelectSeq(calls, LAMBDA c : c = "Cleanup"))

----------------------------------------------------------------------------
(* More claims about the Logging Bridge, under SpecLog *)

\* text with every newline and every tab turned into one space, nothing else
Flattened(v) == [i \in 1..Len(v) |-> IF v[i] \in {"\n", "\t"} THEN " " ELSE v[i]]

\* the positions of the record's arguments that carry the key k
ArgsWithKey(args, k) == {i \in 1..Len(args) : args[i][1] = k}

\* C12: the record of a Log call carries no "time" field, every other field of
\* data exactly once with its value unchanged (the value of "sql" with each
\* newline and tab turned into a space), and last the pair ("sql", msg).
C12_RecordFields ==
    sink # <<>> =>
        LET rec    == sink[Len(sink)]
            data   == lastLog.data
            n      == Len(rec.args)
            fields == SubSeq(rec.args, 1, n - 1)
        IN /\ n >= 1
           /\ rec.args[n] = <<"sql", lastLog.msg>>
           /\ ArgsWithKey(fields, "time") = {}
           /\ Len(fields) = Cardinality((DOMAIN data) \ {"time"})
           /\ \A k \in (DOMAIN data) \ {"time"} :
                /\ Cardinality(ArgsWithKey(fields, k)) = 1
                /\ \A i \in ArgsWithKey(fields, k) :
                     fields[i][2] = IF k = "sql" THEN Flattened(data[k]) ELSE data[k]

\* C12: a call whose data has a time, a duration and a sql with newline and tab
C12_Witness ==
    /\ sink # <<>>
    /\ DOMAIN lastLog.data = {"time", "sql", "duration"}
    /\ lastLog.data["sql"] = <<"q", "\n", "\t", "q">>
    /\ Len(sink[Len(sink)].args) = 3

----------------------------------------------------------------------------
(* Logging Bridge with concurrent callers *)

\* the goroutines that run statements and so call an adapter's Log
Callers == {"g1", "g2"}

\* a goroutine between two Log calls, having made n of them
Outside(n) == [at |-> "outside", issued |-> n, adapter |-> "", level |-> 0, msg |-> <<>>]

InitLogOrder ==
    /\ sink = <<>>
    /\ lastLog = None
    /\ callers = [g \in Callers |-> Outside(0)]
    /\ rwIn = None /\ rwOut = None /\ rwOut2 = None
    /\ fsIn = <<>> /\ fsOut = None
    /\ BootIdle
    /\ StoreIdle

\* goroutine g enters (*slogAdapter).Log or (*slogPgxAdapter).Log; msg names
\* the goroutine and the number of the call
EnterLog(g) ==
    /\ callers[g].at = "outside"
    /\ callers[g].issued < MaxLogCalls
    /\ \E adapter \in {"sqldb", "pgx"}, severe \in BOOLEAN :
         callers' = [callers EXCEPT ![g] =
                        [at |-> "inLog", issued |-> callers[g].issued + 1,
                         adapter |-> adapter,
                         level |-> IF adapter = "sqldb"
                                   THEN (IF severe THEN sqldbLevelError ELSE sqldbLevelInfo)
                                   ELSE (IF severe THEN tracelogLevelError ELSE tracelogLevelInfo),
                         msg |-> <<g>> \o Itoa(callers[g].issued + 1)]]
    /\ UNCHANGED <<sink, lastLog, rwVars, fsVars, bootVars, storeVars>>

\* goroutine g runs the rest of Log: log builds the record, the sink takes it,
\* the call returns
ReturnFromLog(g) ==
    /\ callers[g].at = "inLog"
    /\ LET c    == callers[g]
           ll   == IF c.adapter = "sqldb" THEN slogAdapterLevel(c.level)
                   ELSE slogPgxAdapterLevel(c.level)
           data == [k \in {"sql"} |-> <<"q">>]
       IN sink' = Emit(sink, log(ll, c.msg, data, <<"sql">>))
    /\ callers' = [callers EXCEPT ![g] = Outside(callers[g].issued)]
    /\ UNCHANGED <<lastLog, rwVars, fsVars, bootVars, storeVars>>

NextLogOrder == \E g \in Callers : EnterLog(g) \/ ReturnFromLog(g)

SpecLogOrder == InitLogOrder /\ [][NextLogOrder]_vars

\* the message of a record: the value of its trailing pair
MessageOf(rec) == rec.args[Len(rec.args)][2]

\* the messages of the records the sink took from goroutine g, in sink order
SinkMessagesOf(g) ==
    SelectSeq([i \in 1..Len(sink) |-> MessageOf(sink[i])], LAMBDA m : m[1] = g)

\* the Log calls of g that have returned
Returned(g) == IF callers[g].at = "inLog" THEN callers[g].issued - 1 ELSE callers[g].issued

\* C13: the sink holds exactly one record for every Log call that has
\* returned and none for any other, and the records of one goroutine stand in
\* the order of its calls.
C13_OneRecordPerCallInOrder ==
    \A g \in Callers :
        SinkMessagesOf(g) = [i \in 1..Returned(g) |-> <<g>> \o Itoa(i)]

\* C13: the records of two goroutines interleaved, g2's first call between
\* the two calls of g1
C13_Witness ==
    /\ Len(sink) = 4
    /\ [i \in 1..4 |-> MessageOf(sink[i])]
         = << <<"g1", "1">>, <<"g2", "1">>, <<"g1", "2">>, <<"g2", "2">> >>

----------------------------------------------------------------------------
(* More claims about the Search Normalizer, under SpecSearch *)

\* the input with every literal '%20' turned into the separator sep and
\* nothing else touched
SubstituteEscapedSpaces(text, sep) == Replace(text, <<"%", "2", "0">>, sep)

\* what the stripping and joining make of a text: the tokens with empty
\* pieces dropped, and the tokens as strings.Split leaves them
JoinedResults(text) ==
    {Join(WithMark(SearchTokens(text)), <<" ", "&", " ">>),
     Join(Split(Trim(Replace(Replace(text, <<"@">>, <<" ">>), <<".">>, <<" ">>), " "),
                <<" ">>),
          PrefixAnd) \o PrefixMark}

\* C14: when URL-decoding fails, FormatSearch returns what the stripping and
\* joining make of the original input with each '%20' replaced by a token
\* separator (a space or the '|' the code uses) and nothing else inserted.
C14_FallbackOnlySubstitutes ==
    (fsOut # None /\ BadEscape(fsIn))
    => fsOut.text \in JoinedResults(SubstituteEscapedSpaces(fsIn, <<" ">>))
                        \cup JoinedResults(SubstituteEscapedSpaces(fsIn, <<"|">>))

----------------------------------------------------------------------------
(* More claims about the connection bootstrap *)

\* C15: every handle bootstrap returns keeps at most 4 idle and at most 16
\* open connections, whatever the mode, the cache and the migration outcome.
C15_PoolCaps ==
    result.kind = "handle" =>
        /\ result.value.maxIdle = 4
        /\ result.value.maxOpen = 16

\* C15: a handle returned in production, with a cache, after failed migrations
C15_Witness ==
    /\ result.kind = "handle"
    /\ settings.IsProduction
    /\ globals.cache
    /\ local.errs # <<>>
    /\ result.value.maxOpen = 16
\* the cache block of getDBConnection is behind
PastCacheBlock == pc \in {"ConfigurePool", "MaybeMigrate", "Return", "Ready"}

NoPassword ==
    /\ ParseURL(settings.DATABASE_URL).err = NoErr
    /\ ~ParseURL(settings.DATABASE_URL).passwordSet

\* the Error messages about the missing password
PasswordErrors == SelectSeq(logs, LAMBDA e : e = <<"ERROR", <<"no database password">>>>)

\* C17: with no password in the connection string bootstrap logs exactly one
\* Error about it, goes on to open the handle and to probe the database, and
\* ends fatally only at or after that probe.
C17_MissingPasswordNotFatal ==
    /\ [](NoPassword /\ pc \notin {"ParseConnectionString", "Credentials"}
            => Len(PasswordErrors) = 1)
    /\ [](NoPassword /\ pc = "Panic" => db # None /\ ReachedVerifyLive)
    /\ (NoPassword /\ pc = "Credentials") ~> (db # None /\ ReachedVerifyLive)

\* C17: a connection string without user and password brought bootstrap to Ready
C17_Witness ==
    /\ NoPassword
    /\ pc = "Ready"
    /\ Len(PasswordErrors) = 1
    /\ ~ParseURL(settings.DATABASE_URL).hasUser

----------------------------------------------------------------------------
(* More claims about the Predicate Rewriter, under SpecRewrite *)

\* space, tab and newline
Whitespace == {" ", "\t", "\n"}

\* where the maximal run of non-whitespace atoms that ends just before
\* position i begins
RunStart(clause, i) ==
    LET ws == {j \in 1..(i - 1) : clause[j] \in Whitespace} IN
    IF ws = {} THEN 1 ELSE (CHOOSE j \in ws : \A k \in ws : k <= j) + 1

\* the clause with '<prefix>$SITEULID' replaced by ' and <prefix>site_ulid = $N',
\* the prefix being the run of non-whitespace atoms before the placeholder
QualifiedRewrite(clause, n) ==
    LET i     == Index(clause, Placeholder)
        start == RunStart(clause, i)
    IN SubSeq(clause, 1, start - 1)
         \o <<" ", "and", " ">> \o SubSeq(clause, start, i - 1)
         \o <<"site_ulid = ", "$">> \o Itoa(n)
         \o SubSeq(clause, i + Len(Placeholder), Len(clause))

\* C18: for a clause whose single placeholder follows a table-qualifier dot,
\* the result is the clause with '<prefix>$SITEULID' replaced by
\* ' and <prefix>site_ulid = $N', the prefix being the maximal run of
\* non-whitespace characters before the placeholder and N the new argument
\* count; nothing else changes.
C18_QualifiedPrefix ==
    (/\ rwOut # None
     /\ Count(rwIn.clause, Placeholder) = 1
     /\ Contains(rwIn.clause, DotPlaceholder)
     /\ ~Contains(rwIn.clause, FinishedPredicate))
    => /\ rwOut.err = NoErr
       /\ rwOut.args = Append(rwIn.args, rwIn.tenant)
       /\ rwOut.clause = QualifiedRewrite(rwIn.clause, Len(rwIn.args) + 1)
\* C19: a clause that contains ' site_ulid = $' comes back unchanged, with
\* the argument list unchanged and no error, whatever the tenant and the
\* arguments, also when it holds a '$SITEULID' placeholder as well.
C19_GuardReturnsUnchanged ==
    (rwOut # None /\ Contains(rwIn.clause, <<" ", "site_ulid = ", "$">>))
    => /\ rwOut.clause = rwIn.clause
       /\ rwOut.args = rwIn.args
       /\ rwOut.err = <<>>

\* C19: a call on a clause with a finished predicate and a placeholder, with
\* nine arguments
C19_Witness ==
    /\ rwOut # None
    /\ rwIn.clause = <<" ", "site_ulid = ", "$">> \o Placeholder
    /\ Len(rwIn.args) = 9
    /\ rwOut.clause = rwIn.clause

----------------------------------------------------------------------------
(* The liveness probe and its retries *)

\* the panics raised because a probe was not answered
ProbePanics == {<<"connection refused">>, <<"Could not ping database!">>}

\* C20: one unanswered probe is not fatal by itself: bootstrap goes on probing,
\* and it ends fatally for want of an answer only when the retries are used up
\* (so a database that comes up before the ceiling leads to Ready).
C20_FailedProbeRetried ==
    (pc = "Panic" /\ result.kind = "panic" /\ result.value \in ProbePanics)
        => probes.retries = MaxRetries

----------------------------------------------------------------------------
(* The clause without a placeholder *)

\* C21: for a non-empty clause with no '$SITEULID' and no finished tenant
\* predicate, AppendSiteULID returns the clause with ' and site_ulid = $N'
\* added at its end (N the new argument count), the arguments with the tenant
\* added, and no error.
C21_AppendToTail ==
    (/\ rwOut # None
     /\ rwIn.clause # <<>>
     /\ ~Contains(rwIn.clause, Placeholder)
     /\ ~Contains(rwIn.clause, <<"site_ulid = ", "$">>))
    => /\ rwOut.err = <<>>
       /\ rwOut.args = Append(rwIn.args, rwIn.tenant)
       /\ rwOut.clause = rwIn.clause
             \o <<" ", "and", " ", "site_ulid = ", "$">> \o Itoa(Len(rwIn.args) + 1)

----------------------------------------------------------------------------
(* Single-line records *)

\* the text holds no newline and no tab
SingleLine(v) == \A i \in 1..Len(v) : v[i] \notin {"\n", "\t"}

\* C22: in every record the sink receives, the value of every field labelled
\* "sql" is free of newlines and tabs: the driver's "sql" field and the
\* trailing "sql" field that carries the message alike.
C22_NoControlWhitespaceInSQL ==
    \A r \in 1..Len(sink) :
        \A i \in ArgsWithKey(sink[r].args, "sql") : SingleLine(sink[r].args[i][2])

----------------------------------------------------------------------------
(* The host of the connection target *)

\* the host as the connection string writes it: u.Host without its ":port"
WrittenHost ==
    LET h == ParseURL(settings.DATABASE_URL).Host
        i == LastIndex(h, <<":">>)
    IN IF i = 0 THEN h ELSE SubSeq(h, 1, i - 1)

\* the connection string names a port
PortGiven == Contains(ParseURL(settings.DATABASE_URL).Host, <<":">>)

\* C23: when the host written in the connection string is not the sentinel,
\* the connection target has that host, with or without a port in the string;
\* without a port only the port clause is missing from the target.
C23_HostKeptWithoutPort ==
    (/\ db # None
     /\ ParseURL(settings.DATABASE_URL).err = NoErr
     /\ WrittenHost # Sentinel)
    => /\ HostOf(db.dsn) = WrittenHost
       /\ Contains(db.dsn, <<" port=">>) <=> PortGiven

----------------------------------------------------------------------------
(* Cleanup without a cache *)

\* C24: on every Datastore New returned, with or without a cache connection,
\* a Cleanup call closes the database pool and ends without a fault.
C24_CleanupWithoutFault ==
    (store # None /\ Cleanups >= 1)
    => /\ pools.sql.state = "closed"
       /\ fault = None

----------------------------------------------------------------------------
(* The password and the log *)

\* the passwords the connection strings of the model carry
Passwords == {"pw1", "pw2"}

\* the message holds a password
NamesPassword(msg) == \E i \in 1..Len(msg) : msg[i] \in Passwords

\* C25: no message bootstrap logs holds the database password, so runs whose
\* connection strings differ in the password alone log the same messages.
C25_PasswordNotLogged ==
    \A i \in 1..Len(logs) : ~NamesPassword(logs[i][2])

====
